---- MODULE Spec2Model ----
(***************************************************************************)
(* Model of scripts/compare-test-backend-ops-perf.py: the benchmark line   *)
(* parser, the result loader, the comparator and the report formatter.     *)
(*                                                                         *)
(* Text.  A line is a sequence of lexemes.  A lexeme is a string: a single *)
(* character, one of the six unit words, or one ANSI colour sequence.  The *)
(* regular expressions of the script are evaluated on lexemes: a unit word *)
(* is a unit only when it stands as a lexeme of its own, so that "XGFLOPS" *)
(* is <<"X", "GFLOPS">> and is rejected as the script rejects it.  Rendered *)
(* text (keys, numbers, report lines) is a TLA+ string built with \o.      *)
(*                                                                         *)
(* Numbers.  A float is modelled by the exact rational <<num, den>> in      *)
(* lowest terms with den > 0; rounding of binary64 is not modelled.        *)
(***************************************************************************)
EXTENDS Integers, Sequences, FiniteSets, TLC

VARIABLES pc, results, lines_read, io, exit_status, raised, commits,
          all_keys, unit_type, comparisons, output,
          line, parsed, change_in, change_out

vars == <<pc, results, lines_read, io, exit_status, raised, commits,
          all_keys, unit_type, comparisons, output,
          line, parsed, change_in, change_out>>

(***************************************************************************)
(* Bounds of the model.                                                    *)
(***************************************************************************)
\* lines read from one input file
MaxLines == 3
\* length, in lexemes, of the lines the parser is run on exhaustively
MaxLen == 4
\* numerators of the change values the change formatter is run on
MaxNum == 12

(***************************************************************************)
(* Characters and strings.                                                 *)
(***************************************************************************)
\* printable ASCII in code point order, U+0020 first (the characters a TLA+
\* string cannot hold unescaped are named, and never occur in a line)
Ascii ==
  <<" ", "!", "<quotation mark>", "#", "$", "%", "&", "'", "(", ")", "*", "+", ",", "-", ".", "/",
    "0", "1", "2", "3", "4", "5", "6", "7", "8", "9", ":", ";", "<", "=", ">", "?",
    "@", "A", "B", "C", "D", "E", "F", "G", "H", "I", "J", "K", "L", "M", "N", "O",
    "P", "Q", "R", "S", "T", "U", "V", "W", "X", "Y", "Z", "[", "<reverse solidus>", "]", "^", "_",
    "<grave accent>", "a", "b", "c", "d", "e", "f", "g", "h", "i", "j", "k", "l", "m", "n", "o",
    "p", "q", "r", "s", "t", "u", "v", "w", "x", "y", "z", "{", "|", "}", "~">>

\* the line feed that ends a line read from a file
LF == "LF"

\* the code point of a character: Python compares str by code point
Ord(c) == IF c = LF THEN 10 ELSE 31 + CHOOSE i \in 1..Len(Ascii) : Ascii[i] = c

Digits == <<"0", "1", "2", "3", "4", "5", "6", "7", "8", "9">>

IsDigit(c) == \E i \in 1..10 : Digits[i] = c

DigitVal(c) == (CHOOSE i \in 1..10 : Digits[i] = c) - 1

\* str.strip() and \s of the regular expressions
IsSpace(c) == c \in {" ", LF}

\* the whole of one match of \x1b\[[0-9;]*m
AnsiCodes == {"ESC[0m", "ESC[1;32m"}

FlopsUnits == {"GFLOPS", "TFLOPS", "MFLOPS"}

BandwidthUnits == {"GB/s", "MB/s", "TB/s"}

RECURSIVE Join(_)
\* "".join(s): the text of a sequence of lexemes
Join(s) == IF s = <<>> THEN "" ELSE Head(s) \o Join(Tail(s))

RECURSIVE Strip(_)
\* str.strip(): leading and trailing whitespace removed
Strip(s) ==
  IF s = <<>> THEN s
  ELSE IF IsSpace(Head(s)) THEN Strip(Tail(s))
  ELSE IF IsSpace(s[Len(s)]) THEN Strip(SubSeq(s, 1, Len(s) - 1))
  ELSE s

\* re.sub(r"\x1b\[[0-9;]*m", "", data_part)
StripAnsi(s) == SelectSeq(s, LAMBDA c : c \notin AnsiCodes)

(***************************************************************************)
(* Numbers.                                                                *)
(***************************************************************************)
Abs(n) == IF n < 0 THEN -n ELSE n

RECURSIVE Gcd(_, _)
Gcd(a, b) == IF b = 0 THEN a ELSE Gcd(b, a % b)

\* <<n, d>> with d # 0, in lowest terms, d > 0
Rat(n, d) ==
  LET g == Gcd(Abs(n), Abs(d))
      s == IF d < 0 THEN -1 ELSE 1
  IN <<(s * n) \div g, (s * d) \div g>>

RatLess(a, b) == a[1] * b[2] < b[1] * a[2]

RECURSIVE Pow10(_)
Pow10(k) == IF k = 0 THEN 1 ELSE 10 * Pow10(k - 1)

RECURSIVE DigitsValue(_)
\* the integer written by a sequence of digits and dots, the dots ignored
DigitsValue(s) ==
  IF s = <<>> THEN 0
  ELSE LET c == s[Len(s)]
           rest == DigitsValue(SubSeq(s, 1, Len(s) - 1))
       IN IF c = "." THEN rest ELSE 10 * rest + DigitVal(c)

CountDots(s) == Cardinality({i \in 1..Len(s) : s[i] = "."})

CountDigits(s) == Cardinality({i \in 1..Len(s) : IsDigit(s[i])})

\* float(value_str) accepts digits with at most one dot and at least one digit
FloatAccepts(s) == CountDots(s) <= 1 /\ CountDigits(s) >= 1

\* float(value_str) for a string float() accepts
FloatOf(s) ==
  LET dot == IF CountDots(s) = 0 THEN Len(s)
             ELSE CHOOSE i \in 1..Len(s) : s[i] = "."
  IN Rat(DigitsValue(s), Pow10(Len(s) - dot))

(***************************************************************************)
(* parse_benchmark_line                                                    *)
(***************************************************************************)
NoMatch == [kind |-> "none"]

\* re.search(r"([\d\.]+)\s+(<units>)\s*$", data): the groups, or NoMatch
UnitSearch(data, units) ==
  LET n == Len(data)
      nonsp == {i \in 1..n : ~IsSpace(data[i])}
  IN IF nonsp = {} THEN NoMatch
     ELSE
       LET u == CHOOSE i \in nonsp : \A j \in nonsp : j <= i
           before == {i \in 1..(u - 1) : ~IsSpace(data[i])}
       IN IF data[u] \notin units \/ before = {} THEN NoMatch
          ELSE
            LET e == CHOOSE i \in before : \A j \in before : j <= i
                isnum(i) == IsDigit(data[i]) \/ data[i] = "."
                nonnum == {i \in 1..e : ~isnum(i)}
                b == IF nonnum = {} THEN 1
                     ELSE 1 + CHOOSE i \in nonnum : \A j \in nonnum : j <= i
            IN IF e = u - 1 \/ ~isnum(e) THEN NoMatch
               ELSE [kind |-> "groups", value_str |-> SubSeq(data, b, e),
                     unit |-> data[u]]

\* the scale factors of the T- and M-units exchanged
normalize_swapped(value, unit) ==
  IF unit \in {"TFLOPS", "TB/s"} THEN Rat(value[1], value[2] * 1000)
  ELSE IF unit \in {"MFLOPS", "MB/s"} THEN Rat(value[1] * 1000, value[2])
  ELSE value

\* T-units times 1000, M-units divided by 1000, G-units unchanged
Normalize(value, unit) ==
  IF unit \in {"TFLOPS", "TB/s"} THEN Rat(value[1] * 1000, value[2])
  ELSE IF unit \in {"MFLOPS", "MB/s"} THEN Rat(value[1], value[2] * 1000)
  ELSE value

\* one family's branch: float() raises ValueError on a malformed number
MatchResult(key, m, label) ==
  IF ~FloatAccepts(m.value_str)
  THEN [kind |-> "raise", exc |-> "ValueError"]
  ELSE [kind |-> "match", key |-> key,
        value |-> Normalize(FloatOf(m.value_str), m.unit), unit |-> label]

parse_benchmark_line(l) ==
  LET s == Strip(l)
      colons == {i \in 1..Len(s) : s[i] = ":"}
  IN IF colons = {} THEN NoMatch
     ELSE
       LET c == CHOOSE i \in colons : \A j \in colons : i <= j
           key == Strip(SubSeq(s, 1, c - 1))
           data == Strip(StripAnsi(SubSeq(s, c + 1, Len(s))))
           flops == UnitSearch(data, FlopsUnits)
           bandwidth == UnitSearch(data, BandwidthUnits)
       IN IF flops.kind = "groups" THEN MatchResult(key, flops, "GFLOPS")
          ELSE IF bandwidth.kind = "groups" THEN MatchResult(key, bandwidth, "GB/s")
          ELSE NoMatch

(***************************************************************************)
(* Input lines.                                                            *)
(***************************************************************************)
\* the lexemes of the lines the parser is run on exhaustively
ParseAlphabet ==
  {"k", ":", " ", "1", ".", "ESC[0m"} \cup FlopsUnits \cup BandwidthUnits

\* every line of at most n lexemes
AllLines(n) == UNION {[1..m -> ParseAlphabet] : m \in 0..n}

\* the example lines of the docstring of parse_benchmark_line
DocLineFlops ==
  <<"M", "U", "L", "_", "M", "A", "T", "(", ".", ".", ".", ")", ":", " ",
    "7", "4", "4", " ", "r", "u", "n", "s", " ", "-", " ",
    "1", "6", "6", "0", ".", "1", "1", " ", "u", "s", "/", "r", "u", "n", " ", "-", " ",
    "1", "3", "4", ".", "4", "8", " ", "M", "F", "L", "O", "P", "/", "r", "u", "n", " ",
    "-", " ", "8", "1", ".", "0", "1", " ", "GFLOPS", LF>>

DocLineBandwidth ==
  <<"A", "D", "D", "(", ".", ".", ".", ")", ":", " ",
    "9", "8", "2", "8", "0", " ", "r", "u", "n", "s", " ", "-", " ",
    "1", "0", ".", "8", "7", " ", "u", "s", "/", "r", "u", "n", " ", "-", " ",
    "4", "8", " ", "k", "B", "/", "r", "u", "n", " ", "-", " ",
    "4", ".", "2", "1", " ", "GB/s", LF>>

\* one key, one value per unit and scale
LineTflops == <<"x", ":", " ", "1", " ", "TFLOPS", LF>>
LineGflops == <<"x", ":", " ", "1", "0", "0", "0", " ", "GFLOPS", LF>>
LineMflops == <<"x", ":", " ", "1", "0", "0", "0", "0", "0", "0", " ", "MFLOPS", LF>>
LineTBs == <<"x", ":", " ", "1", " ", "TB/s", LF>>
LineGBs == <<"x", ":", " ", "1", "0", "0", "0", " ", "GB/s", LF>>
LineMBs == <<"x", ":", " ", "1", "0", "0", "0", "0", "0", "0", " ", "MB/s", LF>>

\* a coloured result, a second colon, a glued unit, a malformed number
LineColoured ==
  <<" ", "a", "b", " ", ":", " ", "ESC[1;32m", "2", ".", "5", " ", "TFLOPS", "ESC[0m", LF>>
LineTwoColons == <<"a", ":", "b", ":", " ", "2", "5", "0", " ", "MB/s", LF>>
LineGlued == <<"a", ":", " ", "5", " ", "X", "GFLOPS", LF>>
LineBadNumber == <<"a", ":", " ", "1", ".", "2", ".", "3", " ", "GFLOPS", LF>>
LineLoneDot == <<"a", ":", " ", ".", " ", "GB/s", LF>>

SampleLines ==
  {DocLineFlops, DocLineBandwidth, LineTflops, LineGflops, LineMflops,
   LineTBs, LineGBs, LineMBs, LineColoured, LineTwoColons, LineGlued,
   LineBadNumber, LineLoneDot}

ParseInputs == AllLines(MaxLen) \cup SampleLines

Pending == [kind |-> "pending"]

(***************************************************************************)
(* The parser alone: one line in, one outcome out.                         *)
(***************************************************************************)
\* the variables of the run of main(), before it starts
MainIdle ==
  /\ pc = "open_baseline"
  /\ results = [w \in {"baseline", "compare"} |-> <<>>]
  /\ lines_read = <<>>
  /\ io = <<>>
  /\ exit_status = -1
  /\ raised = "none"
  /\ commits = [w \in {"baseline", "compare"} |-> ""]
  /\ all_keys = <<>>
  /\ unit_type = "GFLOPS"
  /\ comparisons = <<>>
  /\ output = <<>>

mainVars == <<pc, results, lines_read, io, exit_status, raised, commits,
              all_keys, unit_type, comparisons, output>>

InitParse ==
  /\ MainIdle
  /\ line \in ParseInputs
  /\ parsed = Pending
  /\ change_in = <<0, 1>>
  /\ change_out = ""

ParseLine ==
  /\ parsed = Pending
  /\ parsed' = parse_benchmark_line(line)
  /\ UNCHANGED <<mainVars, line, change_in, change_out>>

NextParse == ParseLine

SpecParse == InitParse /\ [][NextParse]_vars

(***************************************************************************)
(* format_change and the "{:.2f}" conversion                               *)
(***************************************************************************)
RECURSIVE IntStr(_)
\* the decimal digits of a natural number
IntStr(n) == IF n < 10 THEN Digits[n + 1] ELSE IntStr(n \div 10) \o Digits[(n % 10) + 1]

\* h hundredths written with two decimals: 1234 is "12.34"
Hundredths(h) ==
  IntStr(h \div 100) \o "." \o Digits[((h \div 10) % 10) + 1] \o Digits[(h % 10) + 1]

\* f"{x:.2f}": the nearest hundredth, a tie going to the even one, the sign
\* of a negative x kept
Fixed2(x) ==
  LET n == Abs(x[1]) * 100
      q == n \div x[2]
      r == n % x[2]
      h == IF 2 * r > x[2] \/ (2 * r = x[2] /\ q % 2 = 1) THEN q + 1 ELSE q
  IN (IF x[1] < 0 THEN "-" ELSE "") \o Hundredths(h)

\* the two thresholds taken as included
format_change_inclusive(change) ==
  IF ~RatLess(change, <<1, 10>>) THEN "+" \o Fixed2(change) \o "%"
  ELSE IF ~RatLess(<<-1, 10>>, change) THEN Fixed2(change) \o "%"
  ELSE " ~0.00%"

format_change(change) ==
  IF RatLess(<<1, 10>>, change) THEN "+" \o Fixed2(change) \o "%"
  ELSE IF RatLess(change, <<-1, 10>>) THEN Fixed2(change) \o "%"
  ELSE " ~0.00%"

\* ((compare_val - baseline_val) / baseline_val) * 100, for baseline_val # 0
Change(baseline_val, compare_val) ==
  Rat((compare_val[1] * baseline_val[2] - baseline_val[1] * compare_val[2]) * 100,
      compare_val[2] * baseline_val[1])

\* the value pairs of the documented examples: 100 against 110, 90 and 100.05
ExampleUp == Change(<<100, 1>>, <<110, 1>>)
ExampleDown == Change(<<100, 1>>, <<90, 1>>)
ExampleNoise == Change(<<100, 1>>, <<10005, 100>>)

ChangeInputs ==
  {Rat(n, d) : n \in (-MaxNum)..MaxNum, d \in {1, 10, 100, 1000}}
    \cup {ExampleUp, ExampleDown, ExampleNoise}

(***************************************************************************)
(* The change formatter alone: one change value in, one text out.          *)
(***************************************************************************)
InitFormat ==
  /\ MainIdle
  /\ line = <<>>
  /\ parsed = Pending
  /\ change_in \in ChangeInputs
  /\ change_out = ""

FormatChange ==
  /\ change_out = ""
  /\ change_out' = format_change(change_in)
  /\ UNCHANGED <<mainVars, line, parsed, change_in>>

NextFormat == FormatChange

SpecFormat == InitFormat /\ [][NextFormat]_vars

(***************************************************************************)
(* The inputs of a run of main().                                          *)
(***************************************************************************)
Files == {"baseline", "compare"}

LineA100 == <<"a", ":", " ", "1", "0", "0", " ", "GFLOPS", LF>>
LineA110 == <<"a", ":", " ", "1", "1", "0", " ", "GFLOPS", LF>>
LineAbZero == <<"a", "b", ":", " ", "0", " ", "GFLOPS", LF>>
LineB == <<"B", ":", " ", "4", ".", "2", "1", " ", "GB/s", LF>>
LineLongKey ==
  <<"M", "U", "L", "_", "M", "A", "T", "(", "t", "y", "p", "e", "_", "a", "=",
    "f", "1", "6", ")", ":", " ", "8", "1", ".", "0", "1", " ", "GFLOPS", LF>>
LineNoise == <<"O", "K", LF>>
LineEmptyKey == <<":", " ", "5", " ", "GFLOPS", LF>>

\* the lines an input file is made of
FileLines ==
  {LineA100, LineA110, LineAbZero, LineB, LineLongKey, LineNoise, LineEmptyKey,
   LineBadNumber}

\* the names (Path.name) of the input files
NameShortId == <<"test-backend-ops-perf-", "abc1234", ".", "log">>
NameLongId ==
  <<"test-backend-ops-perf-", "0123456789abcdef0123456789abcdef01234567", ".", "log">>
NamePlain == <<"results", ".", "log">>

FileNames == {NameShortId, NameLongId, NamePlain}

(***************************************************************************)
(* extract_commit_id                                                       *)
(***************************************************************************)
\* re.match(r"test-backend-ops-perf-([^.]+)\.log", filename): group 1, or ""
extract_commit_id(filename) ==
  LET dots == {i \in 1..Len(filename) : filename[i] = "."}
  IN IF dots = {} \/ filename = <<>> THEN ""
     ELSE LET d == CHOOSE i \in dots : \A j \in dots : i <= j
          IN IF /\ filename[1] = "test-backend-ops-perf-"
                /\ d > 2
                /\ d < Len(filename)
                /\ filename[d + 1] = "log"
             THEN Join(SubSeq(filename, 2, d - 1))
             ELSE ""

(***************************************************************************)
(* load_results                                                            *)
(***************************************************************************)
\* results[key] = {"value": value, "unit": unit_type}
Put(r, key, entry) ==
  [k \in DOMAIN r \cup {key} |-> IF k = key THEN entry ELSE r[k]]

\* a key already stored keeps its entry
store_first_wins(r, p) ==
  IF p.kind = "match" /\ p.key # <<>> /\ p.key \notin DOMAIN r
  THEN Put(r, p.key, [value |-> p.value, unit |-> p.unit])
  ELSE r

\* if key and value is not None and unit_type: results[key] = ...
Store(r, p) ==
  IF p.kind = "match" /\ p.key # <<>>
  THEN Put(r, p.key, [value |-> p.value, unit |-> p.unit])
  ELSE r

NextAfterLoad(which) == IF which = "baseline" THEN "open_compare" ELSE "check"

\* a missing file read as an empty one, the run going on
LoadOpenMissingIgnored(which) ==
  /\ pc = "open_" \o which
  /\ \E found \in BOOLEAN :
       /\ io' = Append(io, [file |-> which, found |-> found])
       /\ pc' = IF found THEN "load_" \o which ELSE NextAfterLoad(which)
       /\ UNCHANGED exit_status
  /\ UNCHANGED <<results, lines_read, raised, commits, all_keys, unit_type,
                 comparisons, output, line, parsed, change_in, change_out>>

\* open(filepath): the file is there, or FileNotFoundError and sys.exit(1)
LoadOpen(which) ==
  /\ pc = "open_" \o which
  /\ \E found \in BOOLEAN :
       /\ io' = Append(io, [file |-> which, found |-> found])
       /\ IF found
          THEN pc' = "load_" \o which /\ UNCHANGED exit_status
          ELSE pc' = "exited" /\ exit_status' = 1
  /\ UNCHANGED <<results, lines_read, raised, commits, all_keys, unit_type,
                 comparisons, output, line, parsed, change_in, change_out>>

\* one turn of "for line in f": an exception of the parser is not caught
LoadLine(which) ==
  /\ pc = "load_" \o which
  /\ Len(lines_read) < MaxLines
  /\ \E l \in FileLines :
       LET p == parse_benchmark_line(l)
       IN IF p.kind = "raise"
          THEN /\ pc' = "crashed"
               /\ raised' = p.exc
               /\ exit_status' = 1
               /\ UNCHANGED <<results, lines_read>>
          ELSE /\ results' = [results EXCEPT ![which] = Store(@, p)]
               /\ lines_read' = Append(lines_read, l)
               /\ UNCHANGED <<pc, raised, exit_status>>
  /\ UNCHANGED <<io, commits, all_keys, unit_type, comparisons, output,
                 line, parsed, change_in, change_out>>

\* the end of the file: the with block closes it and load_results returns
LoadEof(which) ==
  /\ pc = "load_" \o which
  /\ pc' = NextAfterLoad(which)
  /\ lines_read' = <<>>
  /\ UNCHANGED <<results, io, exit_status, raised, commits, all_keys, unit_type,
                 comparisons, output, line, parsed, change_in, change_out>>

(***************************************************************************)
(* The comparator.                                                         *)
(***************************************************************************)
\* None, where a float is expected
None == <<>>

\* a < b for two str: the first differing code point decides, a proper prefix
\* is smaller
KeyLess(a, b) ==
  \E i \in 1..(Len(b)) :
    /\ i <= Len(a) + 1
    /\ \A j \in 1..(i - 1) : a[j] = b[j]
    /\ (i = Len(a) + 1 \/ Ord(a[i]) < Ord(b[i]))

RECURSIVE sorted(_)
\* sorted(list(S)) for a set S of str
sorted(S) ==
  IF S = {} THEN <<>>
  ELSE LET m == CHOOSE x \in S : \A y \in S \ {x} : KeyLess(x, y)
       IN <<m>> \o sorted(S \ {m})

\* the keys of the baseline alone
union_keys_baseline_only(b, c) == DOMAIN b

\* set(baseline_results.keys()) | set(compare_results.keys())
union_keys(b, c) == DOMAIN b \cup DOMAIN c

\* the run given up only when both result sets are empty
results_unusable_both(b, c) == DOMAIN b = {} /\ DOMAIN c = {}

\* not baseline_results or not compare_results
results_unusable(b, c) == DOMAIN b = {} \/ DOMAIN c = {}

\* the unit of the first key: the baseline's if it has the key, else the compare's
first_unit(b, c, keys) ==
  IF keys = <<>> THEN "GFLOPS"
  ELSE IF keys[1] \in DOMAIN b THEN b[keys[1]].unit
  ELSE c[keys[1]].unit

\* data["value"] if data else None
value_of(r, key) == IF key \in DOMAIN r THEN r[key].value ELSE None

\* the division of line 181 raises ZeroDivisionError for some key
divides_by_zero(b, c) == \E key \in DOMAIN b \cap DOMAIN c : b[key].value[1] = 0

\* one turn of the loop over all_keys
entry_of(b, c, key) ==
  LET baseline_val == value_of(b, key)
      compare_val == value_of(c, key)
  IN [key |-> key, baseline |-> baseline_val, compare |-> compare_val,
      change |-> IF baseline_val # None /\ compare_val # None
                 THEN Change(baseline_val, compare_val)
                 ELSE <<0, 1>>]

\* the emptiness check: an error is logged and main returns
CheckResults ==
  /\ pc = "check"
  /\ IF results_unusable(results["baseline"], results["compare"])
     THEN pc' = "returned" /\ exit_status' = 0
     ELSE pc' = "compare" /\ UNCHANGED exit_status
  /\ UNCHANGED <<results, lines_read, io, raised, commits, all_keys, unit_type,
                 comparisons, output, line, parsed, change_in, change_out>>

\* the commit ids, the sorted keys, the unit and the comparison entries
Compare ==
  /\ pc = "compare"
  /\ \E fb \in FileNames, fc \in FileNames :
       commits' = [baseline |-> extract_commit_id(fb),
                   compare |-> extract_commit_id(fc)]
  /\ LET b == results["baseline"]
         c == results["compare"]
         keys == sorted(union_keys(b, c))
     IN /\ all_keys' = keys
        /\ unit_type' = first_unit(b, c, keys)
        /\ IF divides_by_zero(b, c)
           THEN /\ pc' = "crashed"
                /\ raised' = "ZeroDivisionError"
                /\ exit_status' = 1
                /\ UNCHANGED comparisons
           ELSE /\ pc' = "report"
                /\ comparisons' = [i \in 1..Len(keys) |-> entry_of(b, c, keys[i])]
                /\ UNCHANGED <<raised, exit_status>>
  /\ UNCHANGED <<results, lines_read, io, output, line, parsed, change_in,
                 change_out>>

(***************************************************************************)
(* The report.                                                             *)
(***************************************************************************)
\* the width of the value columns and of the change column
ValueWidth == 25
ChangeWidth == 15

RECURSIVE Repeat(_, _)
\* c * n
Repeat(c, n) ==
  IF n <= 0 THEN ""
  ELSE LET half == Repeat(c, n \div 2)
       IN IF n % 2 = 0 THEN half \o half ELSE half \o half \o c

\* f"{s:<{w}}": padded on the right, never cut
PadRight(s, w) == s \o Repeat(" ", w - Len(s))

\* f"{s:>{w}}": padded on the left, never cut
PadLeft(s, w) == Repeat(" ", w - Len(s)) \o s

\* max(len(k) for k in all_keys) + 2
key_width(keys) ==
  LET lens == {Len(Join(keys[i])) : i \in 1..Len(keys)}
  IN 2 + CHOOSE m \in lens : \A n \in lens : n <= m

column_header(side, commit, unit) ==
  IF commit # "" THEN side \o " (" \o commit \o ") " \o unit
  ELSE side \o " " \o unit

header_line(keys, ids, unit) ==
  PadRight("Test Configuration", key_width(keys)) \o " "
    \o PadLeft(column_header("Baseline", ids["baseline"], unit), ValueWidth) \o " "
    \o PadLeft(column_header("Compare", ids["compare"], unit), ValueWidth) \o " "
    \o PadLeft("Change (%)", ChangeWidth)

\* f"{v:.2f}" if v is not None else "N/A"
value_str(v) == IF v # None THEN Fixed2(v) ELSE "N/A"

row_line(item, width) ==
  PadRight(Join(item.key), width) \o " "
    \o PadLeft(value_str(item.baseline), ValueWidth) \o " "
    \o PadLeft(value_str(item.compare), ValueWidth) \o " "
    \o PadLeft(format_change(item.change), ChangeWidth)

\* the lines written to the output file, without their line feeds
report_lines(keys, ids, unit, items) ==
  LET header == header_line(keys, ids, unit)
  IN <<header, Repeat("-", Len(header))>>
       \o [i \in 1..Len(items) |-> row_line(items[i], key_width(keys))]

\* open(args.output, "w") and the writes
WriteReport ==
  /\ pc = "report"
  /\ io' = Append(io, [file |-> "output", found |-> TRUE])
  /\ output' = report_lines(all_keys, commits, unit_type, comparisons)
  /\ pc' = "returned"
  /\ exit_status' = 0
  /\ UNCHANGED <<results, lines_read, raised, commits, all_keys, unit_type,
                 comparisons, line, parsed, change_in, change_out>>

(***************************************************************************)
(* A run of main().                                                        *)
(***************************************************************************)
Init ==
  /\ MainIdle
  /\ line = <<>>
  /\ parsed = Pending
  /\ change_in = <<0, 1>>
  /\ change_out = ""

Next ==
  \/ \E which \in Files : LoadOpen(which)
  \/ \E which \in Files : LoadLine(which)
  \/ \E which \in Files : LoadEof(which)
  \/ CheckResults
  \/ Compare
  \/ WriteReport

Spec == Init /\ [][Next]_vars

(***************************************************************************)
(* Vocabulary of the properties.                                           *)
(***************************************************************************)
\* open() was tried on the file and did not find it
Missing(w) == \E i \in 1..Len(io) : io[i].file = w /\ ~io[i].found

\* open() was tried on the file and succeeded
Opened(w) == \E i \in 1..Len(io) : io[i].file = w /\ io[i].found

Halted == pc \in {"returned", "exited", "crashed"}

\* both input files were read to their end
Loaded == pc \in {"check", "compare", "report", "returned"}

\* the comparator has produced its entries
HasComparisons == pc = "report" \/ (pc = "returned" /\ Opened("output"))

KeysOf(w) == DOMAIN results[w]

UnionOfKeys == KeysOf("baseline") \cup KeysOf("compare")

\* a and b are the same number
RatEq(a, b) == a[1] * b[2] = b[1] * a[2]

(***************************************************************************)
(* C1.  Whenever the comparison runs, the comparison entries are exactly   *)
(* one per key of the union of the two key sets, none for another key, in  *)
(* strictly ascending lexicographic (code point) key order.                *)
(***************************************************************************)
C1_SortedUnion ==
  HasComparisons =>
    /\ Len(comparisons) = Cardinality(UnionOfKeys)
    /\ {comparisons[i].key : i \in 1..Len(comparisons)} = UnionOfKeys
    /\ \A i \in 1..Len(comparisons) : \A j \in 1..Len(comparisons) :
         i < j => KeyLess(comparisons[i].key, comparisons[j].key)

\* a comparison of three keys or more, one only in the baseline and one only
\* in the compare set
C1_Witness ==
  /\ pc = "report"
  /\ Len(comparisons) >= 3
  /\ KeysOf("baseline") \ KeysOf("compare") # {}
  /\ KeysOf("compare") \ KeysOf("baseline") # {}

(***************************************************************************)
(* C2.  For every key of the union the entry's change is                   *)
(* (compare - baseline) / baseline * 100 when both sides have a value and  *)
(* 0 when a side is absent, a baseline value of 0 included, and the        *)
(* comparison never aborts the run.                                        *)
(***************************************************************************)
C2_ChangeNeverAborts ==
  /\ raised # "ZeroDivisionError"
  /\ HasComparisons =>
       \A i \in 1..Len(comparisons) :
         LET e == comparisons[i]
         IN IF e.key \in KeysOf("baseline") /\ e.key \in KeysOf("compare")
            THEN LET b == results["baseline"][e.key].value
                     c == results["compare"][e.key].value
                 IN \* change * baseline = (compare - baseline) * 100
                    e.change[1] * b[1] * c[2]
                      = (c[1] * b[2] - b[1] * c[2]) * 100 * e.change[2]
            ELSE e.change = <<0, 1>>

(***************************************************************************)
(* C3.  The process ends with a non-zero exit status when the baseline     *)
(* file is missing, when the compare file is missing, and when both files  *)
(* exist and both result sets are empty after parsing.                     *)
(***************************************************************************)
C3_FatalExitStatus ==
  (/\ Halted
   /\ \/ Missing("baseline")
      \/ Missing("compare")
      \/ /\ Opened("baseline") /\ Opened("compare")
         /\ KeysOf("baseline") = {} /\ KeysOf("compare") = {})
    => exit_status # 0

(***************************************************************************)
(* C4.  In a run with a fatal condition (an input file missing, or both    *)
(* result sets empty after parsing) the output file is never opened or     *)
(* written: the report is written only after both files were loaded and    *)
(* the emptiness check passed, and a missing baseline file ends the run    *)
(* before the compare file is read.                                        *)
(***************************************************************************)
C4_NoReportOnFatal ==
  /\ Opened("output") =>
       /\ io = <<[file |-> "baseline", found |-> TRUE],
                 [file |-> "compare", found |-> TRUE],
                 [file |-> "output", found |-> TRUE]>>
       /\ KeysOf("baseline") # {} /\ KeysOf("compare") # {}
  /\ Missing("baseline") =>
       /\ io = <<[file |-> "baseline", found |-> FALSE]>>
       /\ pc = "exited"
       /\ results["compare"] = <<>>
  /\ Missing("compare") => pc = "exited"
  /\ (\/ Missing("baseline")
      \/ Missing("compare")
      \/ (Loaded /\ KeysOf("baseline") = {} /\ KeysOf("compare") = {}))
       => ~Opened("output") /\ output = <<>>

\* the compare file is missing after a baseline file with results was loaded
C4_Witness ==
  /\ pc = "exited"
  /\ Opened("baseline")
  /\ KeysOf("baseline") # {}
  /\ Missing("compare")
  /\ output = <<>>

\* the row of a key that only the compare set has
CompareOnlyRow(key) ==
  PadRight(Join(key), key_width(all_keys)) \o " "
    \o PadLeft("N/A", ValueWidth) \o " "
    \o PadLeft(Fixed2(results["compare"][key].value), ValueWidth) \o " "
    \o PadLeft(" ~0.00%", ChangeWidth)

(***************************************************************************)
(* C5.  As claimed: the only fatal conditions are a missing input file and *)
(* both result sets being empty, so a run that returns with both files     *)
(* found and at least one result set non-empty has written a report with   *)
(* one row per key of the union.                                           *)
(***************************************************************************)
C5_ReportUnlessBothEmpty ==
  (/\ pc = "returned"
   /\ Opened("baseline") /\ Opened("compare")
   /\ UnionOfKeys # {})
    => /\ Opened("output")
       /\ Len(output) = 2 + Cardinality(UnionOfKeys)

(***************************************************************************)
(* C5, amended.  An empty result set on either side is fatal, not only on  *)
(* both: a run that returns with a result set empty has written nothing,   *)
(* and the report is written only when both files were found and both      *)
(* result sets are non-empty.  A written report has a header, a separator  *)
(* and one row per key of the union, in key order, and the row of a key    *)
(* only the compare set has shows "N/A" as baseline and " ~0.00%" as       *)
(* change.                                                                 *)
(***************************************************************************)
C5_ReportOnlyIfBothNonEmpty ==
  /\ (pc = "returned" /\ (KeysOf("baseline") = {} \/ KeysOf("compare") = {}))
       => ~Opened("output") /\ output = <<>>
  /\ Opened("output") =>
       /\ Opened("baseline") /\ Opened("compare")
       /\ KeysOf("baseline") # {} /\ KeysOf("compare") # {}
       /\ Len(output) = 2 + Cardinality(UnionOfKeys)
       /\ Len(all_keys) = Cardinality(UnionOfKeys)
       /\ \A i \in 1..Len(all_keys) :
            /\ all_keys[i] \in UnionOfKeys
            /\ all_keys[i] \notin KeysOf("baseline")
                 => output[i + 2] = CompareOnlyRow(all_keys[i])

\* a report with a row for a key that only the compare set has
C5_Witness ==
  /\ pc = "returned"
  /\ Opened("output")
  /\ \E i \in 1..Len(all_keys) :
       /\ all_keys[i] \notin KeysOf("baseline")
       /\ output[i + 2] = CompareOnlyRow(all_keys[i])

LoadingFile == IF pc = "load_baseline" THEN "baseline" ELSE "compare"

Loading == pc \in {"load_baseline", "load_compare"}

\* the lines read so far that the parser matched
MatchedLines == {i \in 1..Len(lines_read) : parse_benchmark_line(lines_read[i]).kind = "match"}

\* the result set holds, for each key of the lines in idx, the last of them
HoldsLastOf(r, idx) ==
  /\ DOMAIN r = {parse_benchmark_line(lines_read[i]).key : i \in idx}
  /\ \A k \in DOMAIN r :
       LET last == CHOOSE i \in idx :
                     /\ parse_benchmark_line(lines_read[i]).key = k
                     /\ \A j \in idx :
                          parse_benchmark_line(lines_read[j]).key = k => j <= i
           p == parse_benchmark_line(lines_read[last])
       IN r[k] = [value |-> p.value, unit |-> p.unit]

(***************************************************************************)
(* C6.  As claimed: while a file is loaded, the key set of its result set  *)
(* is exactly the set of keys of the lines the parser matched, each key    *)
(* carrying the value and unit of the last line matched with it.           *)
(***************************************************************************)
C6_KeysOfMatchedLines ==
  Loading => HoldsLastOf(results[LoadingFile], MatchedLines)

(***************************************************************************)
(* C6, amended.  The result set maps each non-empty key to the value and   *)
(* unit of the last line the parser matched with that key, and its key set *)
(* is exactly the set of non-empty keys of the matched lines: a line the   *)
(* parser does not match, and a matched line whose key is empty, leave the *)
(* result set unchanged.                                                   *)
(***************************************************************************)
C6_LastNonEmptyKeyWins ==
  Loading =>
    HoldsLastOf(results[LoadingFile],
                {i \in MatchedLines : parse_benchmark_line(lines_read[i]).key # <<>>})

\* a key read twice with a line the parser does not match in between
C6_Witness ==
  /\ pc = "load_baseline"
  /\ lines_read = <<LineA100, LineNoise, LineA110>>
  /\ results["baseline"] = [k \in {<<"a">>} |-> [value |-> <<110, 1>>, unit |-> "GFLOPS"]]

(***************************************************************************)
(* C10.  The report is a fixed-width table: the header line, the separator *)
(* line and every row have the same length, (max key length + 2) + 25 + 25 *)
(* + 15 and three separating spaces, also when the longest key is shorter  *)
(* than "Test Configuration" and when a commit id makes a column header    *)
(* longer than 25 characters.                                              *)
(***************************************************************************)
C10_FixedWidth ==
  Opened("output") =>
    \A i \in 1..Len(output) :
      Len(output[i]) = key_width(all_keys) + ValueWidth + ValueWidth + ChangeWidth + 3

(***************************************************************************)
(* C7.  The line parser is total: for every line it returns a (key, value, *)
(* unit) triple or (None, None, None) and never raises, a trailing numeric *)
(* token such as "1.2.3" or "." included.                                  *)
(***************************************************************************)
C7_ParserTotal == parsed.kind \in {"pending", "match", "none"}

AllUnits == FlopsUnits \cup BandwidthUnits

IsNumeric(c) == IsDigit(c) \/ c = "."

\* the line, trimmed, reads k ":" rest, k without a colon, and rest, without
\* its colours and trimmed, ends in the number v, whitespace and the unit u
HasForm(l, c, b, e) ==
  LET s == Strip(l)
      d == Strip(StripAnsi(SubSeq(s, c + 1, Len(s))))
  IN /\ c \in 1..Len(s) /\ s[c] = ":"
     /\ \A j \in 1..(c - 1) : s[j] # ":"
     /\ d # <<>> /\ d[Len(d)] \in AllUnits
     /\ 1 <= b /\ b <= e /\ e < Len(d) - 1
     /\ \A i \in b..e : IsNumeric(d[i])
     /\ b > 1 => ~IsNumeric(d[b - 1])
     /\ \A i \in (e + 1)..(Len(d) - 1) : IsSpace(d[i])

\* what the claim says of a line of that form
Expected(l, c, b, e) ==
  LET s == Strip(l)
      d == Strip(StripAnsi(SubSeq(s, c + 1, Len(s))))
      u == d[Len(d)]
      v == FloatOf(SubSeq(d, b, e))
  IN /\ parsed.kind = "match"
     /\ parsed.key = Strip(SubSeq(s, 1, c - 1))
     /\ parsed.unit = (IF u \in FlopsUnits THEN "GFLOPS" ELSE "GB/s")
     /\ parsed.value[2] > 0
     /\ Gcd(Abs(parsed.value[1]), parsed.value[2]) = 1
     /\ CASE u \in {"TFLOPS", "TB/s"} -> RatEq(parsed.value, <<v[1] * 1000, v[2]>>)
          [] u \in {"MFLOPS", "MB/s"} -> RatEq(<<parsed.value[1] * 1000, parsed.value[2]>>, v)
          [] OTHER -> RatEq(parsed.value, v)

\* the last whitespace-separated token of the trimmed, colour-stripped line is
\* one of the units
LastTokenIsUnit(l) ==
  LET s == Strip(StripAnsi(l))
  IN /\ s # <<>>
     /\ s[Len(s)] \in AllUnits
     /\ Len(s) > 1 => IsSpace(s[Len(s) - 1])

(***************************************************************************)
(* C8.  For every line "<key>: ... <v> <unit>" whose last token is one of  *)
(* the six units, the parser returns the trimmed text before the first     *)
(* colon as key, GFLOPS or GB/s as unit label, and v times 1000 for a      *)
(* T-unit, v / 1000 for an M-unit, v for a G-unit, so that 1 T, 1000 G and *)
(* 1000000 M are the same value; for every line without a colon, or whose  *)
(* last token (of the trimmed, colour-stripped line) is not one of the     *)
(* units, it returns no match.                                             *)
(***************************************************************************)
C8_ParserNormalizes ==
  parsed # Pending =>
    /\ \A c \in 1..Len(line) : \A b \in 1..Len(line) : \A e \in b..Len(line) :
         (HasForm(line, c, b, e)
            /\ FloatAccepts(SubSeq(Strip(StripAnsi(SubSeq(Strip(line), c + 1, Len(Strip(line))))), b, e)))
           => Expected(line, c, b, e)
    /\ ((\A i \in 1..Len(line) : line[i] # ":") \/ ~LastTokenIsUnit(line))
         => parsed = NoMatch
    /\ line \in {LineTflops, LineGflops, LineMflops}
         => parsed = [kind |-> "match", key |-> <<"x">>, value |-> <<1000, 1>>,
                      unit |-> "GFLOPS"]
    /\ line \in {LineTBs, LineGBs, LineMBs}
         => parsed = [kind |-> "match", key |-> <<"x">>, value |-> <<1000, 1>>,
                      unit |-> "GB/s"]
    /\ line = DocLineFlops => parsed.value = <<8101, 100>>

\* a coloured line in TFLOPS, parsed: 2.5 TFLOPS is 2500 GFLOPS
C8_Witness ==
  /\ line = LineColoured
  /\ parsed = [kind |-> "match", key |-> <<"a", "b">>, value |-> <<2500, 1>>,
               unit |-> "GFLOPS"]

\* h hundredths is x in absolute value, to the nearest hundredth
NearestHundredth(h, x) == Abs(2 * (Abs(x[1]) * 100 - h * x[2])) <= x[2]

(***************************************************************************)
(* C9.  The change formatter gives "+X.XX%" for a change above 0.1, "X.XX%" *)
(* with its own minus sign for a change below -0.1, and the literal        *)
(* " ~0.00%" for every change from -0.1 to 0.1, both included; X.XX is the *)
(* change to the nearest hundredth.  100 against 110 is "+10.00%", 100     *)
(* against 90 is "-10.00%", 100 against 100.05 is " ~0.00%".               *)
(***************************************************************************)
C9_ChangeShapes ==
  change_out # "" =>
    /\ RatLess(<<1, 10>>, change_in) =>
         \E h \in 0..(100 * MaxNum + 100) :
           /\ NearestHundredth(h, change_in)
           /\ change_out = "+" \o Hundredths(h) \o "%"
    /\ RatLess(change_in, <<-1, 10>>) =>
         \E h \in 0..(100 * MaxNum + 100) :
           /\ NearestHundredth(h, change_in)
           /\ change_out = "-" \o Hundredths(h) \o "%"
    /\ (~RatLess(<<1, 10>>, change_in) /\ ~RatLess(change_in, <<-1, 10>>))
         => change_out = " ~0.00%"
    /\ change_in = ExampleUp => change_out = "+10.00%"
    /\ change_in = ExampleDown => change_out = "-10.00%"
    /\ change_in = ExampleNoise => change_out = " ~0.00%"

\* the change of exactly 0.1, formatted
C9_Witness == change_in = <<1, 10>> /\ change_out = " ~0.00%"

====
